---- MODULE Spec2Model ----
(***************************************************************************)
(* Greedy join reorder (planner/core/rule_join_reorder_greedy.go).         *)
(*                                                                         *)
(* One call of joinReorderGreedySolver.solve is modelled as a state        *)
(* machine.  The join group (members, equality edges, residual             *)
(* predicates) is drawn in Init; the stats collaborator                    *)
(* (recursiveDeriveStats) chooses the row count of every join candidate    *)
(* and may fail on any call.                                               *)
(*                                                                         *)
(* Plans are records of one shape:                                         *)
(*   kind   "leaf" | "join" | "nil"                                        *)
(*   id     the member's position in joinNodePlans (0 for joins)           *)
(*   kids   <<>> or <<left, right>>                                        *)
(*   eq     EqualConditions, a sequence of edges [l, r]                    *)
(*   oth    OtherConditions, a sequence of residuals [id, cols]            *)
(*   schema the output columns, a sequence                                 *)
(*   rows   the derived row count (for a member: the sum over its subtree) *)
(* Member m exposes the single column m.                                   *)
(***************************************************************************)
EXTENDS Integers, Sequences, FiniteSets, TLC

\* ---------------------------------------------------------------- bounds
MaxN == 3        \* members of the join group
MaxCost == 2     \* base cost of a member: 1..MaxCost
MaxRows == 1     \* row count of a join candidate: 0..MaxRows
MaxEdges == 2    \* equality edges
MaxConds == 2    \* residual predicates
MaxCondCols == 2 \* columns one residual references

\* math.MaxFloat64: larger than every cumulative cost the bounds allow
MaxFloat64 == (MaxN + 1) * (MaxCost + MaxRows + 1)

VARIABLES
    joinNodePlans,      \* argument of solve: the members, in input order
    eqEdges,            \* s.eqEdges
    otherConds,         \* s.otherConds, the pending residuals
    curJoinGroup,       \* s.curJoinGroup, the remaining jrNodes
    cartesianGroup,     \* solve's local: the component trees
    curJoinTree,        \* constructConnectedJoinTree's locals ...
    bestCost,
    bestIdx,
    bestJoin,
    finalRemainOthers,
    i,                  \* index of the running range loop
    pc,                 \* position in solve
    result,             \* the plan solve returns
    err,                \* the error solve returns
    initConds,          \* history: s.otherConds when solve was called
    candCosts,          \* history: curCost of the candidates of this grow step
    seeds,              \* history: the member popped by each grower call
    nDerive,            \* history: calls of recursiveDeriveStats
    nCommit,            \* history: committed merges
    failed              \* history: a call of recursiveDeriveStats has failed

vars == <<joinNodePlans, eqEdges, otherConds, curJoinGroup, cartesianGroup,
          curJoinTree, bestCost, bestIdx, bestJoin, finalRemainOthers, i, pc,
          result, err, initConds, candCosts, seeds, nDerive, nCommit,
          failed>>

\* ---------------------------------------------------------------- plans
NilPlan == [kind |-> "nil", id |-> 0, kids |-> <<>>, eq |-> <<>>, oth |-> <<>>,
            schema |-> <<>>, rows |-> 0]

Leaf(m, c) == [kind |-> "leaf", id |-> m, kids |-> <<>>, eq |-> <<>>, oth |-> <<>>,
               schema |-> <<m>>, rows |-> c]

NilNode == [p |-> NilPlan, cumCost |-> 0]

\* Schema.Contains
Contains(schema, col) == \E k \in 1..Len(schema) : schema[k] = col

\* expression.MergeSchema: the left columns followed by the right ones
MergeSchema(l, r) == l \o r

\* expression.ExprFromSchema: every column of the expression is in the schema
ExprFromSchema(expr, schema) == \A c \in expr.cols : Contains(schema, c)

\* ---------------------------------------------------------------- helpers
\* s.newJoinWithEdges: the inner join of lChild and rChild carrying the edges
\* and the attached residuals; its schema merges the children's schemas
newJoinWithEdges(lChild, rChild, eqs, oths) ==
    [kind |-> "join", id |-> 0, kids |-> <<lChild, rChild>>, eq |-> eqs,
     oth |-> oths, schema |-> MergeSchema(lChild.schema, rChild.schema),
     rows |-> 0]

\* s.newCartesianJoin: a join without any predicate
newCartesianJoin(lChild, rChild) == newJoinWithEdges(lChild, rChild, <<>>, <<>>)

\* expression.FilterOutInPlace with the filter of checkConnectionAndMakeJoin:
\* the residuals evaluable on the schema are filtered out, the rest remain
FilterOutInPlace(input, schema) ==
    [remained    |-> SelectSeq(input, LAMBDA e : ~ExprFromSchema(e, schema)),
     filteredOut |-> SelectSeq(input, LAMBDA e : ExprFromSchema(e, schema))]

\* an edge scan that keeps the edges matched in reverse as they are stored
RECURSIVE UsedEdgesUnswapped(_, _, _)
UsedEdgesUnswapped(edges, lSchema, rSchema) ==
    IF edges = <<>> THEN <<>>
    ELSE LET edge == Head(edges)
             rest == UsedEdgesUnswapped(Tail(edges), lSchema, rSchema)
         IN  IF Contains(lSchema, edge.l) /\ Contains(rSchema, edge.r)
             THEN <<edge>> \o rest
             ELSE IF Contains(rSchema, edge.l) /\ Contains(lSchema, edge.r)
             THEN <<edge>> \o rest
             ELSE rest

\* an edge scan that misses the edges stored in the reverse orientation
RECURSIVE UsedEdgesForward(_, _, _)
UsedEdgesForward(edges, lSchema, rSchema) ==
    IF edges = <<>> THEN <<>>
    ELSE LET edge == Head(edges)
             rest == UsedEdgesForward(Tail(edges), lSchema, rSchema)
         IN  IF Contains(lSchema, edge.l) /\ Contains(rSchema, edge.r)
             THEN <<edge>> \o rest
             ELSE rest

\* the loop over s.eqEdges of checkConnectionAndMakeJoin
RECURSIVE UsedEdges(_, _, _)
UsedEdges(edges, lSchema, rSchema) ==
    IF edges = <<>> THEN <<>>
    ELSE LET edge == Head(edges)
             rest == UsedEdges(Tail(edges), lSchema, rSchema)
         IN  IF Contains(lSchema, edge.l) /\ Contains(rSchema, edge.r)
             THEN <<edge>> \o rest
             ELSE IF Contains(rSchema, edge.l) /\ Contains(lSchema, edge.r)
             THEN <<[l |-> edge.r, r |-> edge.l]>> \o rest
             ELSE rest

\* a join builder that puts the node on the left and the tree on the right
checkConnectionSwapped(leftNode, rightNode) ==
    LET usedEdges == UsedEdges(eqEdges, rightNode.schema, leftNode.schema)
        mergedSchema == MergeSchema(rightNode.schema, leftNode.schema)
        parts == FilterOutInPlace(otherConds, mergedSchema)
    IN  IF Len(usedEdges) = 0
        THEN [join |-> NilPlan, remain |-> <<>>]
        ELSE [join |-> newJoinWithEdges(rightNode, leftNode, usedEdges,
                                        parts.filteredOut),
              remain |-> parts.remained]

\* a join builder that hands back the whole copy of the pending list
checkConnectionKeepAll(leftNode, rightNode) ==
    LET usedEdges == UsedEdges(eqEdges, leftNode.schema, rightNode.schema)
        mergedSchema == MergeSchema(leftNode.schema, rightNode.schema)
        parts == FilterOutInPlace(otherConds, mergedSchema)
    IN  IF Len(usedEdges) = 0
        THEN [join |-> NilPlan, remain |-> <<>>]
        ELSE [join |-> newJoinWithEdges(leftNode, rightNode, usedEdges,
                                        parts.filteredOut),
              remain |-> otherConds]

\* a join builder that filters the residuals on the left schema alone
checkConnectionLeftSchema(leftNode, rightNode) ==
    LET usedEdges == UsedEdges(eqEdges, leftNode.schema, rightNode.schema)
        parts == FilterOutInPlace(otherConds, leftNode.schema)
    IN  IF Len(usedEdges) = 0
        THEN [join |-> NilPlan, remain |-> <<>>]
        ELSE [join |-> newJoinWithEdges(leftNode, rightNode, usedEdges,
                                        parts.filteredOut),
              remain |-> parts.remained]

\* checkConnectionAndMakeJoin: the candidate join and the residuals it leaves
\* pending, or no join when no edge connects the two plans
checkConnectionAndMakeJoin(leftNode, rightNode) ==
    LET usedEdges == UsedEdges(eqEdges, leftNode.schema, rightNode.schema)
        mergedSchema == MergeSchema(leftNode.schema, rightNode.schema)
        parts == FilterOutInPlace(otherConds, mergedSchema)
    IN  IF Len(usedEdges) = 0
        THEN [join |-> NilPlan, remain |-> <<>>]
        ELSE [join |-> newJoinWithEdges(leftNode, rightNode, usedEdges,
                                        parts.filteredOut),
              remain |-> parts.remained]

\* a partition done on s.otherConds itself: the residuals that remain are
\* moved to the front of the solver's own list
otherCondsInPlace(leftNode, rightNode) ==
    LET made == checkConnectionAndMakeJoin(leftNode, rightNode)
    IN  IF made.join = NilPlan THEN otherConds
        ELSE made.remain \o
             SubSeq(otherConds, Len(made.remain) + 1, Len(otherConds))

\* s.otherConds after a call of checkConnectionAndMakeJoin: the partition
\* works on remainOtherConds, the copy made at the head of the call, so the
\* solver's own list keeps its elements and their order
otherCondsAfterCheck(leftNode, rightNode) == otherConds

\* a less function that also holds between equal costs
LessOrEqual(a, b) == a.cumCost <= b.cumCost

\* the less function given to sort.SliceStable
Less(a, b) == a.cumCost < b.cumCost

\* sort.SliceStable: insertion behind every element that is not greater
InsertStable(s, x) ==
    LET k == Cardinality({j \in 1..Len(s) : ~Less(x, s[j])})
    IN  SubSeq(s, 1, k) \o <<x>> \o SubSeq(s, k + 1, Len(s))

RECURSIVE SliceStable(_)
SliceStable(s) ==
    IF s = <<>> THEN <<>>
    ELSE InsertStable(SliceStable(SubSeq(s, 1, Len(s) - 1)), s[Len(s)])

\* s.baseNodeCumCost: the sum of the row counts of the member's subtree
baseNodeCumCost(node) == node.rows

\* a cost that leaves out the row count of the join
calcJoinCostOfChildren(join, lNode, rNode) == lNode.cumCost + rNode.cumCost

\* s.calcJoinCumCost
calcJoinCumCost(join, lNode, rNode) == join.rows + lNode.cumCost + rNode.cumCost

\* a comparison that lets a later candidate of equal cost take over
BetterOrEqual(best, cur) == best >= cur

\* a comparison turned round: no candidate beats the initial best cost
NeverBetter(best, cur) == best < cur

\* a comparison that keeps whichever candidate was evaluated last
KeepLast(best, cur) == TRUE

\* the comparison that keeps the cheapest candidate
Better(best, cur) == best > cur

\* a removal that leaves the winner in the list
RemoveNone(s, k) == s

\* a removal that drops the head instead of the winner
RemoveHead(s, k) == Tail(s)

\* append(s.curJoinGroup[:bestIdx], s.curJoinGroup[bestIdx+1:]...), 1-based
RemoveAt(s, k) == SubSeq(s, 1, k - 1) \o SubSeq(s, k + 1, Len(s))

\* s.makeBushyJoin: cross joins of neighbours, round after round
RECURSIVE PairUp(_)
PairUp(g) ==
    IF Len(g) = 0 THEN <<>>
    ELSE IF Len(g) = 1 THEN g
    ELSE <<newCartesianJoin(g[1], g[2])>> \o PairUp(SubSeq(g, 3, Len(g)))

RECURSIVE makeBushyJoin(_)
makeBushyJoin(g) == IF Len(g) <= 1 THEN g[1] ELSE makeBushyJoin(PairUp(g))

\* ---------------------------------------------------------------- inputs
Range(s) == {s[k] : k \in 1..Len(s)}

SeqsUpTo(S, n) == UNION {[1..k -> S] : k \in 0..n}

Edges(n) == {e \in [l : 1..n, r : 1..n] : e.l /= e.r}

\* the edge set holds no edge twice
EdgeLists(n) ==
    {es \in SeqsUpTo(Edges(n), MaxEdges) : Cardinality(Range(es)) = Len(es)}

ColSets(n) == {S \in SUBSET (1..n) : Cardinality(S) <= MaxCondCols}

CondLists(n) ==
    {[k \in 1..Len(cs) |-> [id |-> k, cols |-> cs[k]]] :
        cs \in SeqsUpTo(ColSets(n), MaxConds)}

PlanLists(n) ==
    {[m \in 1..n |-> Leaf(m, c[m])] : c \in [1..n -> 1..MaxCost]}

\* ---------------------------------------------------------------- solve
Init ==
    /\ \E n \in 1..MaxN :
          /\ joinNodePlans \in PlanLists(n)
          /\ eqEdges \in EdgeLists(n)
          /\ otherConds \in CondLists(n)
    /\ initConds = otherConds
    /\ curJoinGroup = <<>>
    /\ cartesianGroup = <<>>
    /\ curJoinTree = NilNode
    /\ bestCost = MaxFloat64
    /\ bestIdx = 0
    /\ bestJoin = NilPlan
    /\ finalRemainOthers = <<>>
    /\ i = 1
    /\ pc = "derive"
    /\ result = NilPlan
    /\ err = FALSE
    /\ candCosts = <<>>
    /\ seeds = <<>>
    /\ nDerive = 0
    /\ nCommit = 0
    /\ failed = FALSE

inputs == <<joinNodePlans, eqEdges, initConds>>
growLocals == <<curJoinTree, bestCost, bestIdx, bestJoin, finalRemainOthers>>
history == <<candCosts, seeds, nCommit>>

\* a failure ignored: solve goes on as if the call had succeeded
IgnoreErr == UNCHANGED <<pc, err, result>>

\* solve returns (nil, err)
ReturnErr ==
    /\ pc' = "error"
    /\ err' = TRUE
    /\ result' = NilPlan

\* lines 45-54, one member: the stats are derived and the jrNode appended
DeriveMember ==
    /\ pc = "derive"
    /\ i <= Len(joinNodePlans)
    /\ curJoinGroup' = Append(curJoinGroup,
            [p |-> joinNodePlans[i], cumCost |-> baseNodeCumCost(joinNodePlans[i])])
    /\ i' = i + 1
    /\ nDerive' = nDerive + 1
    /\ UNCHANGED <<failed, inputs, otherConds, cartesianGroup, growLocals, pc, result,
                   err, history>>

\* lines 46-49: the derivation of a member fails
DeriveMemberFail ==
    /\ pc = "derive"
    /\ i <= Len(joinNodePlans)
    /\ nDerive' = nDerive + 1
    /\ failed' = TRUE
    /\ ReturnErr
    /\ UNCHANGED <<inputs, otherConds, curJoinGroup, cartesianGroup, growLocals,
                   i, history>>

\* lines 56-58
SortGroup ==
    /\ pc = "derive"
    /\ i > Len(joinNodePlans)
    /\ curJoinGroup' = SliceStable(curJoinGroup)
    /\ pc' = "loop"
    /\ UNCHANGED <<failed, inputs, otherConds, cartesianGroup, growLocals, i, result,
                   err, history, nDerive>>

\* lines 61-62, 74-80: the grower is called and pops its seed
PopSeed ==
    /\ pc = "loop"
    /\ Len(curJoinGroup) > 0
    /\ curJoinTree' = curJoinGroup[1]
    /\ curJoinGroup' = Tail(curJoinGroup)
    /\ bestCost' = MaxFloat64
    /\ bestIdx' = 0
    /\ bestJoin' = NilPlan
    /\ finalRemainOthers' = <<>>
    /\ i' = 1
    /\ pc' = "scan"
    /\ candCosts' = <<>>
    /\ seeds' = Append(seeds, curJoinGroup[1].p.id)
    /\ UNCHANGED <<failed, inputs, otherConds, cartesianGroup, result, err, nDerive,
                   nCommit>>

\* lines 84-87: the node is not connected to the current tree
SkipCandidate ==
    /\ pc = "scan"
    /\ i <= Len(curJoinGroup)
    /\ otherConds' = otherCondsAfterCheck(curJoinTree.p, curJoinGroup[i].p)
    /\ checkConnectionAndMakeJoin(curJoinTree.p, curJoinGroup[i].p).join = NilPlan
    /\ i' = i + 1
    /\ UNCHANGED <<failed, inputs, curJoinGroup, cartesianGroup, growLocals,
                   pc, result, err, history, nDerive>>

\* lines 84-99: the candidate is built, its stats derived, the best one kept
EvalCandidate ==
    /\ pc = "scan"
    /\ i <= Len(curJoinGroup)
    /\ otherConds' = otherCondsAfterCheck(curJoinTree.p, curJoinGroup[i].p)
    /\ LET made == checkConnectionAndMakeJoin(curJoinTree.p, curJoinGroup[i].p)
       IN  /\ made.join /= NilPlan
           /\ \E rowCount \in 0..MaxRows :
                LET newJoin == [made.join EXCEPT !.rows = rowCount]
                    curCost == calcJoinCumCost(newJoin, curJoinTree, curJoinGroup[i])
                IN  /\ candCosts' = Append(candCosts, [idx |-> i, cost |-> curCost])
                    /\ IF Better(bestCost, curCost)
                       THEN /\ bestCost' = curCost
                            /\ bestJoin' = newJoin
                            /\ bestIdx' = i
                            /\ finalRemainOthers' = made.remain
                       ELSE UNCHANGED <<bestCost, bestJoin, bestIdx,
                                        finalRemainOthers>>
    /\ i' = i + 1
    /\ nDerive' = nDerive + 1
    /\ UNCHANGED <<failed, inputs, curJoinGroup, cartesianGroup, curJoinTree,
                   pc, result, err, seeds, nCommit>>

\* lines 89-92: the derivation of the candidate fails
CandidateFail ==
    /\ pc = "scan"
    /\ i <= Len(curJoinGroup)
    /\ otherConds' = otherCondsAfterCheck(curJoinTree.p, curJoinGroup[i].p)
    /\ checkConnectionAndMakeJoin(curJoinTree.p, curJoinGroup[i].p).join /= NilPlan
    /\ nDerive' = nDerive + 1
    /\ failed' = TRUE
    /\ ReturnErr
    /\ UNCHANGED <<inputs, curJoinGroup, cartesianGroup, growLocals,
                   i, history>>

\* lines 106-111, 77-80: the best candidate becomes the current tree
Commit ==
    /\ pc = "scan"
    /\ i > Len(curJoinGroup)
    /\ bestJoin /= NilPlan
    /\ curJoinTree' = [p |-> bestJoin, cumCost |-> bestCost]
    /\ curJoinGroup' = RemoveAt(curJoinGroup, bestIdx)
    /\ otherConds' = finalRemainOthers
    /\ bestCost' = MaxFloat64
    /\ bestIdx' = 0
    /\ bestJoin' = NilPlan
    /\ finalRemainOthers' = <<>>
    /\ i' = 1
    /\ candCosts' = <<>>
    /\ nCommit' = nCommit + 1
    /\ UNCHANGED <<failed, inputs, cartesianGroup, pc, result, err, seeds, nDerive>>

\* lines 102-104, 114, 66: no node connects, the component's tree is returned
ReturnTree ==
    /\ pc = "scan"
    /\ i > Len(curJoinGroup)
    /\ bestJoin = NilPlan
    /\ cartesianGroup' = Append(cartesianGroup, curJoinTree.p)
    /\ pc' = "loop"
    /\ UNCHANGED <<failed, inputs, otherConds, curJoinGroup, growLocals, i, result, err,
                   history, nDerive>>

\* line 69
MakeBushy ==
    /\ pc = "loop"
    /\ Len(curJoinGroup) = 0
    /\ result' = makeBushyJoin(cartesianGroup)
    /\ pc' = "done"
    /\ UNCHANGED <<failed, inputs, otherConds, curJoinGroup, cartesianGroup, growLocals,
                   i, err, history, nDerive>>

Next ==
    \/ DeriveMember
    \/ DeriveMemberFail
    \/ SortGroup
    \/ PopSeed
    \/ SkipCandidate
    \/ EvalCandidate
    \/ CandidateFail
    \/ Commit
    \/ ReturnTree
    \/ MakeBushy

Spec == Init /\ [][Next]_vars

\* solve is one sequential call: a step that can be taken is taken
FairSpec == Spec /\ WF_vars(Next)

\* ---------------------------------------------------------------- trees
\* the members at the leaves of a plan, left to right
RECURSIVE LeafIds(_)
LeafIds(t) ==
    IF t.kind = "leaf" THEN <<t.id>>
    ELSE IF t.kind = "join" THEN LeafIds(t.kids[1]) \o LeafIds(t.kids[2])
    ELSE <<>>

\* the leaves of a plan, left to right
RECURSIVE LeafPlans(_)
LeafPlans(t) ==
    IF t.kind = "leaf" THEN <<t>>
    ELSE IF t.kind = "join" THEN LeafPlans(t.kids[1]) \o LeafPlans(t.kids[2])
    ELSE <<>>

\* the join nodes of a plan, children before parents
RECURSIVE JoinNodes(_)
JoinNodes(t) ==
    IF t.kind = "join"
    THEN JoinNodes(t.kids[1]) \o JoinNodes(t.kids[2]) \o <<t>>
    ELSE <<>>

RECURSIVE Flatten(_)
Flatten(ss) == IF ss = <<>> THEN <<>> ELSE Head(ss) \o Flatten(Tail(ss))

Members == 1..Len(joinNodePlans)

MemberCols == UNION {Range(joinNodePlans[m].schema) : m \in Members}

Done == pc = "done"

\* ---------------------------------------------------------------- C1
\* C1: when solve returns a plan, every member of the group is a leaf of it
\* exactly once, and the plan's schema is the union of the members' schemas.
C1_Completeness ==
    Done =>
        /\ Len(LeafIds(result)) = Len(joinNodePlans)
        /\ Range(LeafIds(result)) = Members
        /\ Range(LeafPlans(result)) = Range(joinNodePlans)
        /\ Range(result.schema) = MemberCols
        /\ Len(result.schema) = Cardinality(MemberCols)

\* a returned plan of three members, the winner of one grow step not being
\* the head of the remaining list
C1_Witness ==
    /\ Done
    /\ Len(joinNodePlans) = 3
    /\ nCommit >= 1
    /\ \E j \in Range(JoinNodes(result)) :
          /\ j.eq /= <<>>
          /\ j.kids[1].kind = "leaf"
          /\ j.kids[1].id = 1
          /\ LeafIds(j.kids[2]) = <<3>>

\* ---------------------------------------------------------------- predicates
\* how often x occurs in the sequence
Occ(x, seq) == Cardinality({k \in 1..Len(seq) : seq[k] = x})

\* the join nodes of a list of plans
AllJoins(plans) == Flatten([k \in 1..Len(plans) |-> JoinNodes(plans[k])])

\* the residuals attached to the join nodes of a list of plans
Attached(plans) ==
    LET js == AllJoins(plans) IN Flatten([k \in 1..Len(js) |-> js[k].oth])

\* the plans solve has built so far: the returned plan, or the component
\* trees together with the tree the grower is working on
Committed ==
    IF Done THEN <<result>>
    ELSE cartesianGroup \o
         (IF pc \in {"scan", "error"} /\ curJoinTree /= NilNode
          THEN <<curJoinTree.p>> ELSE <<>>)

Covers(schema, cols) == \A c \in cols : Contains(schema, c)

\* ---------------------------------------------------------------- C2
\* C2: when solve returns a plan, every residual of the initial pending list
\* is attached to exactly one join node of the plan and none is still pending.
C2_AllResidualsAttached ==
    Done =>
        /\ \A r \in Range(initConds) : Occ(r, Attached(<<result>>)) = 1
        /\ otherConds = <<>>

\* ---------------------------------------------------------------- C3
\* the edge has one column on each side of the join node
Straddles(edge, j) ==
    \/ Contains(j.kids[1].schema, edge.l) /\ Contains(j.kids[2].schema, edge.r)
    \/ Contains(j.kids[2].schema, edge.l) /\ Contains(j.kids[1].schema, edge.r)

\* the edge as the join node must carry it: first column on the left
Oriented(edge, j) ==
    IF Contains(j.kids[1].schema, edge.l) THEN edge
    ELSE [l |-> edge.r, r |-> edge.l]

\* C3: when solve returns a plan, every equality edge is attached to exactly
\* one join node of it, the one join whose two children hold one column of the
\* edge each; a join node carries nothing but the edges that straddle it.
C3_EdgesAttachedOnce ==
    Done =>
        LET js == JoinNodes(result) IN
        /\ \A e \in 1..Len(eqEdges) :
              /\ Cardinality({k \in 1..Len(js) : Straddles(eqEdges[e], js[k])}) = 1
              /\ \A k \in 1..Len(js) :
                    Straddles(eqEdges[e], js[k]) =>
                        Occ(Oriented(eqEdges[e], js[k]), js[k].eq) =
                            Cardinality({f \in 1..Len(eqEdges) :
                                Oriented(eqEdges[f], js[k]) =
                                    Oriented(eqEdges[e], js[k])
                                /\ Straddles(eqEdges[f], js[k])})
        /\ \A k \in 1..Len(js) :
              Len(js[k].eq) =
                  Cardinality({e \in 1..Len(eqEdges) : Straddles(eqEdges[e], js[k])})

\* a returned plan with a join that carries an edge stored the other way round
C3_Witness ==
    /\ Done
    /\ \E j \in Range(JoinNodes(result)) :
          \E e \in 1..Len(eqEdges) :
              /\ Straddles(eqEdges[e], j)
              /\ Oriented(eqEdges[e], j) /= eqEdges[e]
              /\ Occ(Oriented(eqEdges[e], j), j.eq) = 1

\* ---------------------------------------------------------------- C4
\* C4: in every state, each initial residual is either pending or attached to
\* exactly one committed join node; an attached residual references only
\* columns of its join's schema; the residuals attached to the candidate kept
\* as the best one, which is not committed, are still pending.
C4_ResidualBookkeeping ==
    /\ \A r \in Range(initConds) :
          Occ(r, otherConds) + Occ(r, Attached(Committed)) = 1
    /\ \A j \in Range(AllJoins(Committed)) :
          \A r \in Range(j.oth) : Covers(j.schema, r.cols)
    /\ \A r \in Range(bestJoin.oth) : Occ(r, otherConds) = 1

\* a committed join carries a residual while another one is pending, and the
\* candidate kept as the best one has a residual attached to it
C4_Witness ==
    /\ pc = "scan"
    /\ nCommit >= 1
    /\ Attached(Committed) /= <<>>
    /\ bestJoin /= NilPlan
    /\ bestJoin.oth /= <<>>

\* ---------------------------------------------------------------- C5
\* the join nodes strictly below a join node
Below(j) == JoinNodes(j.kids[1]) \o JoinNodes(j.kids[2])

\* the group of the scenario: A(1), B(2), C(3), edges A = B and B = C, one
\* residual over the columns of A and C
Scenario ==
    /\ Len(joinNodePlans) = 3
    /\ Len(eqEdges) = 2
    /\ {{e.l, e.r} : e \in Range(eqEdges)} = {{1, 2}, {2, 3}}
    /\ initConds = <<[id |-> 1, cols |-> {1, 3}]>>

\* C5: no pending residual is covered by the schema of a committed edge join
\* (it was attached there), no join node below the join of an attached
\* residual covers it, and in the scenario the residual sits on the final
\* join and not on the first one, whatever the costs.
C5_EarliestJoin ==
    /\ \A j \in Range(AllJoins(Committed)) :
          /\ j.eq /= <<>> =>
                \A r \in Range(otherConds) : ~Covers(j.schema, r.cols)
          /\ \A r \in Range(j.oth) :
                \A b \in Range(Below(j)) : ~Covers(b.schema, r.cols)
    /\ (Scenario /\ Done) =>
          /\ result.oth = initConds
          /\ result.kids[1].kind = "join"
          /\ result.kids[1].oth = <<>>
          /\ result.kids[2].kind = "leaf"
          /\ otherConds = <<>>

\* the scenario has returned its plan with the residual on the final join,
\* the member A costing more than the member C
C5_Witness ==
    /\ Scenario
    /\ Done
    /\ result.oth = initConds
    /\ joinNodePlans[1].rows > joinNodePlans[3].rows

\* ---------------------------------------------------------------- C6
\* the member whose schema holds the column
Owner(col) == CHOOSE m \in Members : Contains(joinNodePlans[m].schema, col)

\* the members an equality edge links to a member of S
Neighbours(S) ==
    {m \in Members : \E e \in Range(eqEdges) :
        \/ Owner(e.l) \in S /\ Owner(e.r) = m
        \/ Owner(e.r) \in S /\ Owner(e.l) = m}

RECURSIVE Reach(_)
Reach(S) == IF Neighbours(S) \subseteq S THEN S ELSE Reach(S \cup Neighbours(S))

\* the connected components of the equality-edge graph
Components == {Reach({m}) : m \in Members}

CrossJoins(t) ==
    LET js == JoinNodes(t) IN {k \in 1..Len(js) : js[k].eq = <<>>}

\* C6: the grower is called once per connected component of the edge graph
\* and each component tree holds the members of one component; the returned
\* plan combines the k trees by k-1 cross joins and is the tree itself for
\* k = 1; without edges every member is a tree of its own.
C6_Components ==
    /\ \A k \in 1..Len(cartesianGroup) :
          /\ Range(LeafIds(cartesianGroup[k])) = Reach({seeds[k]})
          /\ seeds[k] = LeafIds(cartesianGroup[k])[1]
          /\ \A j \in Range(JoinNodes(cartesianGroup[k])) : j.eq /= <<>>
    /\ Done =>
          LET nc == Cardinality(Components) IN
          /\ Len(cartesianGroup) = nc
          /\ Len(seeds) = nc
          /\ Cardinality(CrossJoins(result)) = nc - 1
          /\ nc = 1 => result = cartesianGroup[1]
          /\ eqEdges = <<>> =>
                /\ Len(cartesianGroup) = Len(joinNodePlans)
                /\ \A k \in 1..Len(cartesianGroup) :
                      cartesianGroup[k].kind = "leaf"

\* a returned plan of two components, one of them of two members
C6_Witness ==
    /\ Done
    /\ Cardinality(Components) = 2
    /\ Len(joinNodePlans) = 3
    /\ Cardinality(CrossJoins(result)) = 1

\* ---------------------------------------------------------------- C7
\* C7: in a grow step the candidate kept as the best one costs no more than
\* any candidate evaluated in that step, so the committed one costs no more
\* than any other connectable node.
C7_GreedyMinimum ==
    (pc = "scan" /\ bestJoin /= NilPlan) =>
        /\ \A k \in 1..Len(candCosts) : bestCost <= candCosts[k].cost
        /\ \E k \in 1..Len(candCosts) :
              /\ candCosts[k].idx = bestIdx
              /\ candCosts[k].cost = bestCost
        /\ i > Len(curJoinGroup) =>
              \A n \in 1..Len(curJoinGroup) :
                  checkConnectionAndMakeJoin(curJoinTree.p,
                                             curJoinGroup[n].p).join /= NilPlan
                      => \E k \in 1..Len(candCosts) : candCosts[k].idx = n

\* a grow step about to commit, the later of its two candidates being dearer
C7_Witness ==
    /\ pc = "scan"
    /\ i > Len(curJoinGroup)
    /\ Len(candCosts) = 2
    /\ bestIdx = 1
    /\ candCosts[2].cost > bestCost

\* ---------------------------------------------------------------- C8
\* the order of the sorted list: base cost first, input position second
Before(a, b) ==
    \/ a.cumCost < b.cumCost
    \/ a.cumCost = b.cumCost /\ a.p.id < b.p.id

SeedNode(k) == [p |-> joinNodePlans[seeds[k]],
                cumCost |-> joinNodePlans[seeds[k]].rows]

\* C8: once sorted, the remaining list is in ascending order of base cost,
\* input order among equals, in every later state; every seed precedes all
\* the nodes that remain, and the component trees are listed in the order of
\* their seeds.
C8_SortedRemaining ==
    (pc \in {"loop", "scan", "done"} \/ (pc = "error" /\ seeds /= <<>>)) =>
        /\ \A a, b \in 1..Len(curJoinGroup) :
              a < b => Before(curJoinGroup[a], curJoinGroup[b])
        /\ \A k \in 1..Len(curJoinGroup) :
              /\ curJoinGroup[k].p = joinNodePlans[curJoinGroup[k].p.id]
              /\ curJoinGroup[k].cumCost = curJoinGroup[k].p.rows
        /\ \A k \in 1..Len(seeds) :
              /\ \A a \in 1..Len(curJoinGroup) :
                    Before(SeedNode(k), curJoinGroup[a])
              /\ \A h \in 1..(k - 1) : Before(SeedNode(h), SeedNode(k))
              /\ k <= Len(cartesianGroup) =>
                    LeafIds(cartesianGroup[k])[1] = seeds[k]

\* a second seed is popped after a merge, its cost equal to the first seed's
\* and to the one of a node that was given later and still remains
C8_Witness ==
    /\ pc = "scan"
    /\ Len(seeds) = 2
    /\ Len(curJoinGroup) = 1
    /\ SeedNode(1).cumCost = SeedNode(2).cumCost
    /\ curJoinGroup[1].cumCost = SeedNode(2).cumCost

\* ---------------------------------------------------------------- C9
\* the derivation failed on a join candidate, in a grow step
FailedInGrow == pc = "error" /\ seeds /= <<>>

\* C9: when a derivation fails on a candidate in a grow step, the solver's
\* remaining list and pending residuals are as they were when solve was
\* called.
C9_NoPartialMutation ==
    FailedInGrow =>
        /\ err
        /\ result = NilPlan
        /\ curJoinGroup = <<>>
        /\ otherConds = initConds

\* ---------------------------------------------------------------- C10
\* C10: once a derivation has failed, solve has returned the error and no
\* plan, and nothing happens any more: no derivation, no merge, no component
\* tree, no cross join.
C10_FailFast ==
    /\ [](failed => (pc = "error" /\ err /\ result = NilPlan))
    /\ [](err => failed)
    /\ [][failed => UNCHANGED <<nDerive, nCommit, curJoinTree, curJoinGroup,
                                cartesianGroup, otherConds, result, i>>]_vars

\* solve has failed on the first candidate of a grow step, a second
\* connectable node of that step being left unevaluated
C10_Witness ==
    /\ failed
    /\ pc = "error"
    /\ i = 1
    /\ Len(curJoinGroup) = 2
    /\ checkConnectionAndMakeJoin(curJoinTree.p, curJoinGroup[2].p).join /= NilPlan

\* ---------------------------------------------------------------- C11
\* a step that calls checkConnectionAndMakeJoin: the scan of one node
ChecksConnection == pc = "scan" /\ i <= Len(curJoinGroup)

\* C11: a call of checkConnectionAndMakeJoin, on a connectable pair or not,
\* leaves the solver's remaining list, edge set and pending residuals
\* (contents and order) as they were.
C11_CheckIsPure ==
    [][ChecksConnection =>
          /\ curJoinGroup' = curJoinGroup
          /\ eqEdges' = eqEdges
          /\ otherConds' = otherConds]_vars

\* two calls were made in a grow step: the kept candidate took the first of
\* two pending residuals, and both are still in the solver's list
C11_Witness ==
    /\ pc = "scan"
    /\ i = 3
    /\ bestJoin /= NilPlan
    /\ Len(otherConds) = 2
    /\ bestJoin.oth = <<otherConds[1]>>
    /\ finalRemainOthers = <<otherConds[2]>>

\* ---------------------------------------------------------------- C12
Returned == pc \in {"done", "error"}

\* what a step of the two loops does to the remaining list
ShrinkStep ==
    pc \in {"loop", "scan"} =>
        IF Len(seeds') > Len(seeds) \/ nCommit' > nCommit
        THEN Len(curJoinGroup') = Len(curJoinGroup) - 1
        ELSE curJoinGroup' = curJoinGroup

\* C12: once seeded and sorted, the remaining list loses exactly one node at
\* every seed pop and at every committed merge and is unchanged by every
\* other step; solve returns in every run, and with the list empty when it
\* returns a plan.
C12_ShrinksAndTerminates ==
    /\ [][ShrinkStep]_vars
    /\ <>Returned
    /\ [](Done => curJoinGroup = <<>>)

\* solve has returned a plan after two grower calls and a committed merge
C12_Witness ==
    /\ Done
    /\ Len(seeds) = 2
    /\ nCommit = 1
    /\ curJoinGroup = <<>>

\* ---------------------------------------------------------------- C13
\* the plans the solver holds: the current tree, the remaining nodes and the
\* component trees
HeldPlans ==
    {curJoinTree.p} \cup {curJoinGroup[k].p : k \in 1..Len(curJoinGroup)}
        \cup Range(cartesianGroup)

\* the edges with one column in each of the two schemas
Connecting(lSchema, rSchema) ==
    {e \in 1..Len(eqEdges) :
        \/ Contains(lSchema, eqEdges[e].l) /\ Contains(rSchema, eqEdges[e].r)
        \/ Contains(rSchema, eqEdges[e].l) /\ Contains(lSchema, eqEdges[e].r)}

\* the columns of an edge, unordered
Ends(edge) == {edge.l, edge.r}

\* C13: for every pair of plans, checkConnectionAndMakeJoin returns no join
\* and no pending list exactly when no edge has one column in each schema;
\* otherwise the join is over the two plans and carries all these edges and
\* nothing else, each with its first column in the left schema and its second
\* in the right one.
C13_ConnectionContract ==
    \A lp \in HeldPlans : \A rp \in HeldPlans :
        LET made == checkConnectionAndMakeJoin(lp, rp)
            conn == Connecting(lp.schema, rp.schema)
        IN  IF conn = {}
            THEN made.join = NilPlan /\ made.remain = <<>>
            ELSE /\ made.join.kind = "join"
                 /\ made.join.kids = <<lp, rp>>
                 /\ Len(made.join.eq) = Cardinality(conn)
                 /\ \A k \in 1..Len(made.join.eq) :
                       /\ Contains(lp.schema, made.join.eq[k].l)
                       /\ Contains(rp.schema, made.join.eq[k].r)
                 /\ \A e \in conn :
                       Cardinality({k \in 1..Len(made.join.eq) :
                           Ends(made.join.eq[k]) = Ends(eqEdges[e])}) =
                       Cardinality({f \in conn :
                           Ends(eqEdges[f]) = Ends(eqEdges[e])})

\* the grower is about to check a node that two edges connect to its seed,
\* the first edge stored left to right, the second right to left
C13_Witness ==
    /\ pc = "scan"
    /\ i <= Len(curJoinGroup)
    /\ LET made == checkConnectionAndMakeJoin(curJoinTree.p, curJoinGroup[i].p)
       IN  /\ Len(eqEdges) = 2
           /\ Len(made.join.eq) = 2
           /\ made.join.eq[1] = eqEdges[1]
           /\ made.join.eq[2] /= eqEdges[2]

\* ---------------------------------------------------------------- C14
\* the remaining nodes an equality edge connects to the plan
Connectable(plan) ==
    {k \in 1..Len(curJoinGroup) :
        Connecting(plan.schema, curJoinGroup[k].p.schema) /= {}}

\* the scan of a grow step is over
Scanned == pc = "scan" /\ i > Len(curJoinGroup)

\* C14: a scanned node that is connectable to the current tree leaves a best
\* candidate, so the grower returns its tree only when no remaining node is
\* connectable, and no component tree is connectable to a node that remains.
C14_ExhaustedMeansUnconnected ==
    /\ pc = "scan" =>
          \A k \in Connectable(curJoinTree.p) : k < i => bestJoin /= NilPlan
    /\ (Scanned /\ bestJoin = NilPlan) => Connectable(curJoinTree.p) = {}
    /\ \A k \in 1..Len(cartesianGroup) : Connectable(cartesianGroup[k]) = {}

\* the grower has merged a node and is about to return its tree while a node
\* remains
C14_Witness ==
    /\ Scanned
    /\ bestJoin = NilPlan
    /\ nCommit = 1
    /\ Len(curJoinGroup) = 1
    /\ Len(seeds) = 1

\* ---------------------------------------------------------------- C15
\* the first of the candidates of this grow step that has the least cost
FirstMin ==
    CHOOSE k \in 1..Len(candCosts) :
        /\ \A j \in 1..Len(candCosts) : candCosts[k].cost <= candCosts[j].cost
        /\ \A j \in 1..(k - 1) : candCosts[j].cost > candCosts[k].cost

\* what checkConnectionAndMakeJoin returns for the current tree and the node
MadeWith(k) == checkConnectionAndMakeJoin(curJoinTree.p, curJoinGroup[k].p)

\* the step commits a merge
Commits == nCommit' > nCommit

\* the committed merge is the one with the first candidate of least cost, and
\* the pending list installed is the one computed for it
CommitsFirstMin ==
    Commits =>
        /\ curJoinTree'.p.kids = <<curJoinTree.p, curJoinGroup[candCosts[FirstMin].idx].p>>
        /\ curJoinTree'.cumCost = candCosts[FirstMin].cost
        /\ otherConds' = MadeWith(candCosts[FirstMin].idx).remain
        /\ curJoinTree'.p.oth =
               FilterOutInPlace(otherConds, curJoinTree'.p.schema).filteredOut

\* C15: among the candidates of a grow step the one kept is the first of
\* those with the least cost, with the pending list computed for it, and that
\* is the merge and the pending list a commit installs.
C15_FirstWinsTies ==
    /\ []((pc = "scan" /\ bestJoin /= NilPlan) =>
            /\ bestIdx = candCosts[FirstMin].idx
            /\ bestCost = candCosts[FirstMin].cost
            /\ bestJoin.kids[2] = curJoinGroup[bestIdx].p
            /\ finalRemainOthers = MadeWith(bestIdx).remain)
    /\ [][CommitsFirstMin]_vars

\* a scan has ended with two candidates of the same cost that leave different
\* pending lists; the first one is kept
C15_Witness ==
    /\ Scanned
    /\ Len(candCosts) = 2
    /\ candCosts[1].cost = candCosts[2].cost
    /\ bestIdx = candCosts[1].idx
    /\ MadeWith(candCosts[1].idx).remain /= MadeWith(candCosts[2].idx).remain

\* ---------------------------------------------------------------- C16
\* within a grower call the current tree keeps its leaves, and a commit adds
\* exactly one, a node of the remaining list
GrowsByOneLeaf ==
    (pc = "scan" /\ pc' = "scan") =>
        /\ Range(LeafIds(curJoinTree.p)) \subseteq Range(LeafIds(curJoinTree'.p))
        /\ Commits =>
              /\ Len(LeafIds(curJoinTree'.p)) = Len(LeafIds(curJoinTree.p)) + 1
              /\ \E k \in 1..Len(curJoinGroup) :
                    /\ curJoinTree'.p.kids = <<curJoinTree.p, curJoinGroup[k].p>>
                    /\ curJoinGroup' = RemoveAt(curJoinGroup, k)
        /\ ~Commits => curJoinTree' = curJoinTree

\* C16: the remaining list holds original members only, the current tree
\* grows by one member at a time and loses none, and every join with an
\* equality edge has an original member as its right child.
C16_LeftDeep ==
    /\ [](\A k \in 1..Len(curJoinGroup) :
             /\ curJoinGroup[k].p \in Range(joinNodePlans)
             /\ curJoinGroup[k].p.kind = "leaf")
    /\ [](\A j \in Range(AllJoins(Committed)) :
             j.eq /= <<>> =>
                 /\ j.kids[2] \in Range(joinNodePlans)
                 /\ j.kids[2].kind = "leaf")
    /\ [][GrowsByOneLeaf]_vars

\* a component tree of three members: a join whose left child is a join
C16_Witness ==
    /\ pc = "scan"
    /\ nCommit = 2
    /\ curJoinTree.p.kids[1].kind = "join"
    /\ curJoinTree.p.kids[2].kind = "leaf"

\* ---------------------------------------------------------------- C17
\* the row counts of all the nodes of a plan
RECURSIVE TotalRows(_)
TotalRows(t) ==
    IF t.kind = "join"
    THEN t.rows + TotalRows(t.kids[1]) + TotalRows(t.kids[2])
    ELSE t.rows

\* a commit adds the winner's base cost and the new join's row count
AddsWinnerCost ==
    Commits =>
        /\ curJoinTree'.cumCost =
               curJoinTree.cumCost
               + joinNodePlans[curJoinTree'.p.kids[2].id].rows
               + curJoinTree'.p.rows
        /\ curJoinTree'.p.kids[2] = curJoinGroup[bestIdx].p
        /\ curJoinTree'.p = bestJoin
        /\ curJoinTree'.cumCost >= curJoinTree.cumCost

\* C17: a commit makes the cumulative cost of the current tree the one of the
\* tree before plus the base cost of the winning member plus the row count of
\* the new join, so it never decreases in a grower call and is the sum of the
\* row counts of the tree's nodes.
C17_CumulativeCost ==
    /\ [][AddsWinnerCost]_vars
    /\ [][(pc = "scan" /\ pc' = "scan") =>
             curJoinTree'.cumCost >= curJoinTree.cumCost]_vars
    /\ [](pc = "scan" => curJoinTree.cumCost = TotalRows(curJoinTree.p))

\* the second of two candidates was committed, with a join row count above
\* zero and a base cost above the seed's
C17_Witness ==
    /\ pc = "scan"
    /\ nCommit = 1
    /\ Len(curJoinGroup) = 1
    /\ curJoinTree.p.rows > 0
    /\ curJoinTree.p.kids[2].rows > curJoinTree.p.kids[1].rows
    /\ curJoinGroup[1].cumCost < curJoinTree.p.kids[2].rows

\* ---------------------------------------------------------------- C18
\* C18: when solve returns a plan for n members in k components, the
\* remaining list is empty and the plan has n-1 join nodes: the n-k merges
\* the grower committed, each with at least one equality edge, and k-1 cross
\* joins.
C18_JoinCounts ==
    Done =>
        LET n == Len(joinNodePlans)
            nc == Cardinality(Components)
            js == JoinNodes(result)
            grown == AllJoins(cartesianGroup)
        IN  /\ curJoinGroup = <<>>
            /\ Len(js) = n - 1
            /\ Len(grown) = n - nc
            /\ nCommit = n - nc
            /\ \A k \in 1..Len(grown) :
                  /\ Len(grown[k].eq) >= 1
                  /\ Occ(grown[k], js) = 1
            /\ Cardinality(CrossJoins(result)) = nc - 1
            /\ Cardinality({k \in 1..Len(js) : js[k].eq /= <<>>}) = n - nc

\* a returned plan of three members in one component: two merges, no cross
\* join
C18_Witness ==
    /\ Done
    /\ Len(joinNodePlans) = 3
    /\ Cardinality(Components) = 1
    /\ nCommit = 2
    /\ CrossJoins(result) = {}

====
